---- MODULE Spec2Model ----
(***************************************************************************)
(* Model of package xattr (ivaxer/go-xattr): the portable facade           *)
(* Get/Set/List/Remove, the low-level pass-throughs Getxattr/Setxattr/     *)
(* Listxattr/Removexattr, the error wrapper XAttrError, IsNotExist and the *)
(* decoder nullTermToStrings, over a kernel attribute store.               *)
(*                                                                         *)
(* Strings and byte slices are sequences of byte values; "user." is        *)
(* <<117,115,101,114,46>>.  A Go slice is a record [isNil, b] so that a    *)
(* nil slice and an empty non-nil slice differ.  A Go error is a record    *)
(* [kind, Op, Path, Attr, Err]: kind "nil" is the nil error, kind "errno"  *)
(* a raw syscall.Errno (named by Err), kind "xattr" a *XAttrError.         *)
(***************************************************************************)
EXTENDS Integers, Sequences, FiniteSets

VARIABLES
    goos,      \* build target: "linux" or "darwin" (selects prefix, absent errno)
    store,     \* kernel: attributes of the existing file, kernel name -> value
    pc,        \* position of the facade call in progress
    cur,       \* the facade call in progress (between its two adapter calls)
    ret,       \* what the last completed call returned
    log,       \* adapter calls issued by the current / last facade call
    written,   \* per attribute: data of the last successful Set, untouched since
    ntbuf,     \* decoder run: the buffer handed to nullTermToStrings
    ntout      \* decoder run: what nullTermToStrings returned

vars == <<goos, store, pc, cur, ret, log, written, ntbuf, ntout>>

\* ---------------------------------------------------------------- bounds

MaxValLen == 2
MaxBufLen == 4

RECURSIVE SeqsUpTo(_, _)
SeqsUpTo(S, n) ==
    IF n = 0 THEN {<<>>}
    ELSE LET shorter == SeqsUpTo(S, n - 1)
         IN  shorter \cup {Append(s, x) : s \in {t \in shorter : Len(t) = n - 1}, x \in S}

ValueBytes == {0, 1}
Values == SeqsUpTo(ValueBytes, MaxValLen)
BufBytes == {0, 1, 2}
Buffers == SeqsUpTo(BufBytes, MaxBufLen)

\* caller-supplied attribute names: "a" and "user.a"
AttrNames == {<<97>>, <<117, 115, 101, 114, 46, 97>>}
\* "/tmp/f" exists; "/tmp/missing" does not
ExistingPath == "/tmp/f"
Paths == {ExistingPath, "/tmp/missing"}
\* the data tried on a path: a call on the missing file fails whatever the data
DataFor(path) == IF path = ExistingPath THEN Values ELSE {<<>>}
\* the data and flags the low-level Setxattr is tried with
RawValues == {<<>>, <<1, 0>>}

\* ------------------------------------------------------------ Go values

NilBytes == [isNil |-> TRUE, b |-> <<>>]
Bytes(s) == [isNil |-> FALSE, b |-> s]
NilStrings == [isNil |-> TRUE, s |-> <<>>]
Strings(s) == [isNil |-> FALSE, s |-> s]

NilErr == [kind |-> "nil", Op |-> "", Path |-> "", Attr |-> <<>>, Err |-> ""]
Errno(e) == [kind |-> "errno", Op |-> "", Path |-> "", Attr |-> <<>>, Err |-> e]
\* the error a raw adapter result (an errno name, "" for success) becomes
RawErr(e) == IF e = "" THEN NilErr ELSE Errno(e)

XAttrError(op, path, attr, errno) ==
    [kind |-> "xattr", Op |-> op, Path |-> path, Attr |-> attr, Err |-> errno]

\* ----------------------------------------------------- platform adapter

prefix == IF goos = "linux" THEN <<117, 115, 101, 114, 46>> ELSE <<>>

\* the errno the platform's kernel reports for an absent attribute
NoAttrErrno == IF goos = "linux" THEN "ENODATA" ELSE "ENOATTR"

isNotExistWrongErrno(err) == err.Err = "ENOENT"
isNotExistLinux(err) == err.Err = "ENODATA"
isNotExistDarwin(err) == err.Err = "ENOATTR"
isNotExist(err) == IF goos = "linux" THEN isNotExistLinux(err) ELSE isNotExistDarwin(err)

HasPrefix(s, p) == Len(s) >= Len(p) /\ SubSeq(s, 1, Len(p)) = p
TrimPrefix(s, p) == IF HasPrefix(s, p) THEN SubSeq(s, Len(p) + 1, Len(s)) ELSE s
stripPrefix(s) == [i \in 1..Len(s) |-> TrimPrefix(s[i], prefix)]

Zeros(n) == [i \in 1..n |-> 0]

\* getxattr(2) into a destination of destLen bytes (0: nil or empty dest)
get(path, attr, destLen) ==
    IF path # ExistingPath THEN [sz |-> -1, errno |-> "ENOENT", buf |-> Zeros(destLen)]
    ELSE IF attr \notin DOMAIN store
         THEN [sz |-> -1, errno |-> NoAttrErrno, buf |-> Zeros(destLen)]
    ELSE IF destLen = 0
         THEN [sz |-> Len(store[attr]), errno |-> "", buf |-> <<>>]
    ELSE IF Len(store[attr]) > destLen
         THEN [sz |-> -1, errno |-> "ERANGE", buf |-> Zeros(destLen)]
    ELSE [sz |-> Len(store[attr]), errno |-> "",
          buf |-> store[attr] \o Zeros(destLen - Len(store[attr]))]

\* the errno of setxattr(2) ("" for success); flags 1 = create only, 2 = replace only
setErrno(path, attr, flags) ==
    IF path # ExistingPath THEN "ENOENT"
    ELSE IF flags = 1 /\ attr \in DOMAIN store THEN "EEXIST"
    ELSE IF flags = 2 /\ attr \notin DOMAIN store THEN NoAttrErrno
    ELSE ""

\* the store after a successful setxattr(2)
setStore(attr, data) ==
    [k \in DOMAIN store \cup {attr} |-> IF k = attr THEN data ELSE store[k]]

removeErrno(path, attr) ==
    IF path # ExistingPath THEN "ENOENT"
    ELSE IF attr \notin DOMAIN store THEN NoAttrErrno
    ELSE ""

removeStore(attr) == [k \in DOMAIN store \ {attr} |-> store[k]]

RECURSIVE NulJoin(_)
NulJoin(names) ==
    IF names = <<>> THEN <<>>
    ELSE Head(names) \o <<0>> \o NulJoin(Tail(names))

\* the orders in which the kernel may report the names present
NameOrders ==
    {o \in [1..Cardinality(DOMAIN store) -> DOMAIN store] :
        \A i, j \in DOMAIN o : i # j => o[i] # o[j]}

\* listxattr(2) into a destination of destLen bytes, the names in order `order`
\* (the size of the list is the same in every order)
list(path, destLen, order) ==
    LET all == NulJoin(order)
    IN  IF path # ExistingPath THEN [sz |-> -1, errno |-> "ENOENT", buf |-> Zeros(destLen)]
        ELSE IF destLen = 0 THEN [sz |-> Len(all), errno |-> "", buf |-> <<>>]
        ELSE IF Len(all) > destLen
             THEN [sz |-> -1, errno |-> "ERANGE", buf |-> Zeros(destLen)]
        ELSE [sz |-> Len(all), errno |-> "", buf |-> all \o Zeros(destLen - Len(all))]

\* ------------------------------------------------------ portable facade

IsNotExistUnwrapped(err) == isNotExist(err)
IsNotExist(err) == IF err.kind = "xattr" THEN isNotExist(err) ELSE FALSE

\* the loop with offset left on the zero byte
RECURSIVE nullTermLoopOnZero(_, _, _, _)
nullTermLoopOnZero(buf, index, offset, result) ==
    IF index > Len(buf) THEN result
    ELSE IF buf[index] = 0
         THEN nullTermLoopOnZero(buf, index + 1, index,
                                 Append(result, SubSeq(buf, offset, index - 1)))
    ELSE nullTermLoopOnZero(buf, index + 1, offset, result)

\* the loop of nullTermToStrings from position index on (positions are 1-based
\* here: Go's buf[offset:index] is SubSeq(buf, offset, index - 1))
RECURSIVE nullTermLoop(_, _, _, _)
nullTermLoop(buf, index, offset, result) ==
    IF index > Len(buf) THEN result
    ELSE IF buf[index] = 0
         THEN nullTermLoop(buf, index + 1, index + 1,
                           Append(result, SubSeq(buf, offset, index - 1)))
    ELSE nullTermLoop(buf, index + 1, offset, result)

nullTermToStrings(buf) == nullTermLoop(buf, 1, 1, <<>>)

Getxattr(path, attr, destLen) == get(path, attr, destLen)
Listxattr(path, destLen, order) == list(path, destLen, order)
Setxattr(path, attr, flags) == setErrno(path, attr, flags)
Removexattr(path, attr) == removeErrno(path, attr)

\* attr = prefix + attr
Prefixed(attr) == prefix \o attr

\* Get without the size == 0 return
GetDiscoverNoEmpty(path, attr) ==
    LET pattr == Prefixed(attr)
        r == Getxattr(path, pattr, 0)
    IN  IF r.errno # ""
        THEN [done |-> TRUE, val |-> NilBytes, size |-> r.sz, errno |-> r.errno,
              err |-> XAttrError("getxattr", path, pattr, r.errno)]
        ELSE [done |-> FALSE, val |-> NilBytes, size |-> r.sz, errno |-> "",
              err |-> NilErr]

\* Get up to its first return or its allocation of buf: [done, val, err, size, errno]
GetDiscover(path, attr) ==
    LET pattr == Prefixed(attr)
        r == Getxattr(path, pattr, 0)
    IN  IF r.errno # ""
        THEN [done |-> TRUE, val |-> NilBytes, size |-> r.sz, errno |-> r.errno,
              err |-> XAttrError("getxattr", path, pattr, r.errno)]
        ELSE IF r.sz = 0
        THEN [done |-> TRUE, val |-> Bytes(<<>>), size |-> r.sz, errno |-> "",
              err |-> NilErr]
        ELSE [done |-> FALSE, val |-> NilBytes, size |-> r.sz, errno |-> "",
              err |-> NilErr]

\* Get returning buf[:size-1]
GetFillShort(path, attr, size) ==
    LET pattr == Prefixed(attr)
        r == Getxattr(path, pattr, size)
    IN  IF r.errno # ""
        THEN [val |-> NilBytes, size |-> r.sz, errno |-> r.errno,
              err |-> XAttrError("getxattr", path, pattr, r.errno)]
        ELSE [val |-> Bytes(SubSeq(r.buf, 1, r.sz - 1)), size |-> r.sz, errno |-> "",
              err |-> NilErr]

\* Get returning buf whole, not buf[:size]
GetFillWholeBuf(path, attr, size) ==
    LET pattr == Prefixed(attr)
        r == Getxattr(path, pattr, size)
    IN  IF r.errno # ""
        THEN [val |-> NilBytes, size |-> r.sz, errno |-> r.errno,
              err |-> XAttrError("getxattr", path, pattr, r.errno)]
        ELSE [val |-> Bytes(r.buf), size |-> r.sz, errno |-> "", err |-> NilErr]

\* Get from the allocation of buf (size bytes) on: [val, err, size, errno]
GetFill(path, attr, size) ==
    LET pattr == Prefixed(attr)
        r == Getxattr(path, pattr, size)
    IN  IF r.errno # ""
        THEN [val |-> NilBytes, size |-> r.sz, errno |-> r.errno,
              err |-> XAttrError("getxattr", path, pattr, r.errno)]
        ELSE [val |-> Bytes(SubSeq(r.buf, 1, r.sz)), size |-> r.sz, errno |-> "",
              err |-> NilErr]

\* List up to its first return or its allocation of buf
ListDiscover(path) ==
    LET r == Listxattr(path, 0, CHOOSE o \in NameOrders : TRUE)
    IN  IF r.errno # ""
        THEN [done |-> TRUE, names |-> NilStrings, size |-> r.sz, errno |-> r.errno,
              err |-> XAttrError("listxattr", path, <<>>, r.errno)]
        ELSE IF r.sz = 0
        THEN [done |-> TRUE, names |-> Strings(<<>>), size |-> r.sz, errno |-> "",
              err |-> NilErr]
        ELSE [done |-> FALSE, names |-> NilStrings, size |-> r.sz, errno |-> "",
              err |-> NilErr]

\* List without stripPrefix
ListFillNoStrip(path, size, order) ==
    LET r == Listxattr(path, size, order)
        strs == nullTermToStrings(SubSeq(r.buf, 1, r.sz))
    IN  IF r.errno # ""
        THEN [names |-> NilStrings, size |-> r.sz, errno |-> r.errno,
              err |-> XAttrError("listxattr", path, <<>>, r.errno)]
        ELSE [names |-> [isNil |-> strs = <<>>, s |-> strs], size |-> r.sz,
              errno |-> "", err |-> NilErr]

\* List from the allocation of buf (size bytes) on
ListFill(path, size, order) ==
    LET r == Listxattr(path, size, order)
        strs == stripPrefix(nullTermToStrings(SubSeq(r.buf, 1, r.sz)))
    IN  IF r.errno # ""
        THEN [names |-> NilStrings, size |-> r.sz, errno |-> r.errno,
              err |-> XAttrError("listxattr", path, <<>>, r.errno)]
        ELSE [names |-> [isNil |-> strs = <<>>, s |-> strs], size |-> r.sz,
              errno |-> "", err |-> NilErr]

\* Set passing flags = 1 (create only)
SetCreateOnly(path, attr) ==
    LET pattr == Prefixed(attr)
        e == Setxattr(path, pattr, 1)
    IN  [errno |-> e,
         err |-> IF e # "" THEN XAttrError("setxattr", path, pattr, e) ELSE NilErr]

\* Set: [errno, err], errno being what Setxattr returned
Set(path, attr) ==
    LET pattr == Prefixed(attr)
        e == Setxattr(path, pattr, 0)
    IN  [errno |-> e,
         err |-> IF e # "" THEN XAttrError("setxattr", path, pattr, e) ELSE NilErr]

\* Remove dropping the error of Removexattr
RemoveSwallow(path, attr) ==
    LET pattr == Prefixed(attr)
        e == Removexattr(path, pattr)
    IN  [errno |-> e, err |-> NilErr]

\* Remove: [errno, err], errno being what Removexattr returned
Remove(path, attr) ==
    LET pattr == Prefixed(attr)
        e == Removexattr(path, pattr)
    IN  [errno |-> e,
         err |-> IF e # "" THEN XAttrError("removexattr", path, pattr, e) ELSE NilErr]

\* ------------------------------------------------------------- the state

KernelNames == {Prefixed(a) : a \in AttrNames}

NoCur == [op |-> "none", path |-> "", attr |-> <<>>, size |-> 0, raced |-> FALSE]

NoRet == [op |-> "none", path |-> "", attr |-> <<>>, val |-> NilBytes,
          names |-> NilStrings, sz |-> 0, err |-> NilErr,
          size1 |-> 0, size2 |-> 0, race |-> "none", raced |-> FALSE,
          again |-> FALSE, same |-> FALSE]

NoOut == [done |-> FALSE, s |-> <<>>]

Unwritten == [ok |-> FALSE, b |-> <<>>]

\* `written` after the attribute stored under kernel name k was touched
Touch(k) == [a \in AttrNames |-> IF Prefixed(a) = k THEN Unwritten ELSE written[a]]

Call(name, errno) == [call |-> name, errno |-> errno]

Init ==
    /\ goos \in {"linux", "darwin"}
    /\ store = [k \in {} |-> <<>>]
    /\ pc = "idle"
    /\ cur = NoCur
    /\ ret = NoRet
    /\ log = <<>>
    /\ written = [a \in AttrNames |-> Unwritten]
    /\ ntbuf = <<>>
    /\ ntout = NoOut

\* ----------------------------------------------------------- the actions

\* whether Set(path, attr, data) repeats the call that has just returned nil
SetAgain(path, attr, data) ==
    /\ ret.op = "Set" /\ ret.path = path /\ ret.attr = attr /\ ret.err = NilErr
    /\ written[attr] = [ok |-> TRUE, b |-> data]

DoSet(path, attr, data) ==
    LET r == Set(path, attr)
    IN  /\ pc = "idle"
        /\ store' = IF r.errno = "" THEN setStore(Prefixed(attr), data) ELSE store
        /\ ret' = [NoRet EXCEPT !.op = "Set", !.path = path, !.attr = attr, !.err = r.err,
                                !.again = SetAgain(path, attr, data),
                                !.same = (store' = store)]
        /\ log' = <<Call("setxattr", r.errno)>>
        /\ written' = IF r.errno = ""
                      THEN [Touch(Prefixed(attr)) EXCEPT ![attr] = [ok |-> TRUE, b |-> data]]
                      ELSE written
        /\ UNCHANGED <<goos, pc, cur, ntbuf, ntout>>

DoRemove(path, attr) ==
    LET r == Remove(path, attr)
    IN  /\ pc = "idle"
        /\ store' = IF r.errno = "" THEN removeStore(Prefixed(attr)) ELSE store
        /\ ret' = [NoRet EXCEPT !.op = "Remove", !.path = path, !.attr = attr,
                                !.err = r.err]
        /\ log' = <<Call("removexattr", r.errno)>>
        /\ written' = IF r.errno = "" THEN Touch(Prefixed(attr)) ELSE written
        /\ UNCHANGED <<goos, pc, cur, ntbuf, ntout>>

\* Get, lines 63-72: the size-discovery call
DoGetDiscover(path, attr) ==
    LET r == GetDiscover(path, attr)
    IN  /\ pc = "idle"
        /\ log' = <<Call("getxattr", r.errno)>>
        /\ IF r.done
           THEN /\ ret' = [NoRet EXCEPT !.op = "Get", !.path = path, !.attr = attr,
                                        !.val = r.val, !.err = r.err, !.size1 = r.size]
                /\ UNCHANGED <<pc, cur>>
           ELSE /\ pc' = "get_fill"
                /\ cur' = [NoCur EXCEPT !.op = "Get", !.path = path, !.attr = attr,
                                        !.size = r.size]
                /\ ret' = NoRet
        /\ UNCHANGED <<goos, store, written, ntbuf, ntout>>

\* how the stored value changed between Get's two calls
RaceOf(attr, size) ==
    IF Prefixed(attr) \notin DOMAIN store THEN "removed"
    ELSE IF Len(store[Prefixed(attr)]) > size THEN "grow"
    ELSE IF Len(store[Prefixed(attr)]) < size THEN "shrink"
    ELSE "samesize"

\* Get, lines 74-80: the fill call
DoGetFill ==
    LET r == GetFill(cur.path, cur.attr, cur.size)
    IN  /\ pc = "get_fill"
        /\ log' = Append(log, Call("getxattr", r.errno))
        /\ ret' = [NoRet EXCEPT !.op = "Get", !.path = cur.path, !.attr = cur.attr,
                                !.val = r.val, !.err = r.err, !.size1 = cur.size,
                                !.size2 = r.size, !.race = RaceOf(cur.attr, cur.size),
                                !.raced = cur.raced]
        /\ pc' = "idle"
        /\ cur' = NoCur
        /\ UNCHANGED <<goos, store, written, ntbuf, ntout>>

\* List, lines 89-96: the size-discovery call
DoListDiscover(path) ==
    LET r == ListDiscover(path)
    IN  /\ pc = "idle"
        /\ log' = <<Call("listxattr", r.errno)>>
        /\ IF r.done
           THEN /\ ret' = [NoRet EXCEPT !.op = "List", !.path = path,
                                        !.names = r.names, !.err = r.err, !.size1 = r.size]
                /\ UNCHANGED <<pc, cur>>
           ELSE /\ pc' = "list_fill"
                /\ cur' = [NoCur EXCEPT !.op = "List", !.path = path, !.size = r.size]
                /\ ret' = NoRet
        /\ UNCHANGED <<goos, store, written, ntbuf, ntout>>

\* List, lines 98-104: the fill call and the decoding
DoListFill ==
    /\ pc = "list_fill"
    /\ \E order \in NameOrders :
         LET r == ListFill(cur.path, cur.size, order)
         IN  /\ log' = Append(log, Call("listxattr", r.errno))
             /\ ret' = [NoRet EXCEPT !.op = "List", !.path = cur.path,
                                     !.names = r.names, !.err = r.err,
                                     !.size1 = cur.size, !.size2 = r.size,
                                     !.raced = cur.raced]
    /\ pc' = "idle"
    /\ cur' = NoCur
    /\ UNCHANGED <<goos, store, written, ntbuf, ntout>>

\* another process sets an attribute of the file between the two calls
WriterSet(k, data) ==
    /\ pc \in {"get_fill", "list_fill"}
    /\ store' = setStore(k, data)
    /\ store' # store
    /\ cur' = [cur EXCEPT !.raced = TRUE]
    /\ written' = Touch(k)
    /\ UNCHANGED <<goos, pc, ret, log, ntbuf, ntout>>

\* another process removes an attribute of the file between the two calls
WriterRemove(k) ==
    /\ pc \in {"get_fill", "list_fill"}
    /\ k \in DOMAIN store
    /\ store' = removeStore(k)
    /\ cur' = [cur EXCEPT !.raced = TRUE]
    /\ written' = Touch(k)
    /\ UNCHANGED <<goos, pc, ret, log, ntbuf, ntout>>

\* the low-level calls: raw buffers, raw errors, no prefix
DoGetxattr(path, k, destLen) ==
    LET r == Getxattr(path, k, destLen)
    IN  /\ pc = "idle"
        /\ ret' = [NoRet EXCEPT !.op = "Getxattr", !.path = path, !.attr = k,
                                !.val = Bytes(r.buf), !.sz = r.sz, !.err = RawErr(r.errno)]
        /\ log' = <<>>
        /\ UNCHANGED <<goos, store, pc, cur, written, ntbuf, ntout>>

DoSetxattr(path, k, data, flags) ==
    LET e == Setxattr(path, k, flags)
    IN  /\ pc = "idle"
        /\ store' = IF e = "" THEN setStore(k, data) ELSE store
        /\ ret' = [NoRet EXCEPT !.op = "Setxattr", !.path = path, !.attr = k,
                                !.err = RawErr(e)]
        /\ log' = <<>>
        /\ written' = IF e = "" THEN Touch(k) ELSE written
        /\ UNCHANGED <<goos, pc, cur, ntbuf, ntout>>

DoListxattr(path, destLen) ==
    /\ pc = "idle"
    /\ \E order \in NameOrders :
         LET r == Listxattr(path, destLen, order)
         IN  ret' = [NoRet EXCEPT !.op = "Listxattr", !.path = path,
                                  !.val = Bytes(r.buf), !.sz = r.sz,
                                  !.err = RawErr(r.errno)]
    /\ log' = <<>>
    /\ UNCHANGED <<goos, store, pc, cur, written, ntbuf, ntout>>

DoRemovexattr(path, k) ==
    LET e == Removexattr(path, k)
    IN  /\ pc = "idle"
        /\ store' = IF e = "" THEN removeStore(k) ELSE store
        /\ ret' = [NoRet EXCEPT !.op = "Removexattr", !.path = path, !.attr = k,
                                !.err = RawErr(e)]
        /\ log' = <<>>
        /\ written' = IF e = "" THEN Touch(k) ELSE written
        /\ UNCHANGED <<goos, pc, cur, ntbuf, ntout>>

Next ==
    \/ \E p \in Paths, a \in AttrNames : \E d \in DataFor(p) : DoSet(p, a, d)
    \/ \E p \in Paths, a \in AttrNames : DoRemove(p, a)
    \/ \E p \in Paths, a \in AttrNames : DoGetDiscover(p, a)
    \/ DoGetFill
    \/ \E p \in Paths : DoListDiscover(p)
    \/ DoListFill
    \/ \E k \in KernelNames, d \in Values : WriterSet(k, d)
    \/ \E k \in KernelNames : WriterRemove(k)
    \/ \E p \in Paths, k \in KernelNames, n \in {0, MaxValLen} : DoGetxattr(p, k, n)
    \/ \E p \in Paths, k \in KernelNames, f \in {0, 1, 2} : \E d \in RawValues \cap DataFor(p) :
         DoSetxattr(p, k, d, f)
    \/ \E p \in Paths, n \in {0, MaxValLen} : DoListxattr(p, n)
    \/ \E p \in Paths, k \in KernelNames : DoRemovexattr(p, k)

Spec == Init /\ [][Next]_vars

\* --------------------------------------------------- the decoder on its own

InitDecode ==
    /\ goos = "linux"
    /\ store = [k \in {} |-> <<>>]
    /\ pc = "idle"
    /\ cur = NoCur
    /\ ret = NoRet
    /\ log = <<>>
    /\ written = [a \in AttrNames |-> Unwritten]
    /\ ntbuf \in Buffers
    /\ ntout = NoOut

Decode ==
    /\ ~ntout.done
    /\ ntout' = [done |-> TRUE, s |-> nullTermToStrings(ntbuf)]
    /\ UNCHANGED <<goos, store, pc, cur, ret, log, written, ntbuf>>

NextDecode == Decode

SpecDecode == InitDecode /\ [][NextDecode]_vars

\* ------------------------------------------------------------ the claims

\* the caller-supplied names of the attributes present on the existing file
Present == {a \in AttrNames : Prefixed(a) \in DOMAIN store}

Range(s) == {s[i] : i \in 1..Len(s)}

\* C1: a Get of an attribute whose value a successful Set wrote, nothing having
\* touched the attribute since, returns a nil error and exactly the bytes set.
C1_RoundTrip ==
    (pc = "idle" /\ ret.op = "Get" /\ ret.path = ExistingPath /\ written[ret.attr].ok)
        => /\ ret.err = NilErr
           /\ ~ret.val.isNil
           /\ ret.val.b = written[ret.attr].b

\* a value holding a NUL byte came back from Get
C1_Witness ==
    /\ pc = "idle" /\ ret.op = "Get" /\ written[ret.attr].ok
    /\ ret.val.b = <<0, 1>>
    /\ goos = "linux"

\* C2: every non-nil error of Get, Set or Remove is a *XAttrError whose Path is
\* the caller's path and whose Attr is the caller's unprefixed attribute name.
C2_ErrorShape ==
    (pc = "idle" /\ ret.op \in {"Get", "Set", "Remove"} /\ ret.err # NilErr)
        => /\ ret.err.kind = "xattr"
           /\ ret.err.Path = ret.path
           /\ ret.err.Attr = ret.attr

\* C3: a Get of an attribute that is not present on an existing file returns a
\* nil value and a non-nil error for which IsNotExist is true.
C3_Absent ==
    (pc = "idle" /\ ret.op = "Get" /\ ret.path = ExistingPath /\ ret.attr \notin Present)
        => /\ ret.val.isNil
           /\ ret.err # NilErr
           /\ IsNotExist(ret.err)

\* Get of an absent attribute has returned, on the build with the prefix
C3_Witness ==
    /\ pc = "idle" /\ ret.op = "Get" /\ ret.path = ExistingPath
    /\ ret.attr \notin Present
    /\ ret.err.kind = "xattr"
    /\ goos = "linux"

\* C4: IsNotExist(err) is true exactly when err is a *XAttrError whose Err is the
\* platform's attribute-absent errno (ENODATA on Linux, ENOATTR on Darwin); it is
\* false of a raw errno, the raw attribute-absent errno included, and of nil.
C4_IsNotExist ==
    IsNotExist(ret.err) <=>
        /\ ret.err.kind = "xattr"
        /\ \/ goos = "linux" /\ ret.err.Err = "ENODATA"
           \/ goos = "darwin" /\ ret.err.Err = "ENOATTR"

\* a low-level call has returned the raw attribute-absent errno
C4_Witness ==
    /\ ret.op \in {"Getxattr", "Setxattr", "Removexattr"}
    /\ ret.err.kind = "errno"
    /\ ret.err.Err = NoAttrErrno

\* C5: a List that no other process interfered with returns a nil error and
\* names whose set is exactly the set of the attributes present, each without
\* the namespace prefix.
C5_ListConsistency ==
    (pc = "idle" /\ ret.op = "List" /\ ret.path = ExistingPath /\ ~ret.raced)
        => /\ ret.err = NilErr
           /\ Range(ret.names.s) = Present

\* List has returned both names, on the build with the prefix
C5_Witness ==
    /\ pc = "idle" /\ ret.op = "List" /\ ~ret.raced
    /\ Len(ret.names.s) = 2
    /\ Range(ret.names.s) = AttrNames
    /\ goos = "linux"

\* C6: a Get of an attribute set to the empty value returns an empty non-nil
\* slice and a nil error after the size-discovery call alone.
C6_EmptyValue ==
    (/\ pc = "idle" /\ ret.op = "Get" /\ ret.path = ExistingPath
     /\ written[ret.attr] = [ok |-> TRUE, b |-> <<>>])
        => /\ ret.err = NilErr
           /\ ret.val = Bytes(<<>>)
           /\ Len(log) = 1

\* Get of an attribute set to the empty value has returned
C6_Witness ==
    /\ pc = "idle" /\ ret.op = "Get" /\ ret.path = ExistingPath
    /\ written[ret.attr] = [ok |-> TRUE, b |-> <<>>]

\* C7: a Set that repeats the Set that has just returned nil returns nil too
\* (it never fails because the attribute exists) and leaves the store as it was.
C7_SetIdempotent ==
    (ret.op = "Set" /\ ret.again) => (ret.err = NilErr /\ ret.same)

\* the same Set has been called twice in a row with a non-empty value
C7_Witness ==
    /\ ret.op = "Set" /\ ret.again
    /\ written[ret.attr].ok /\ Len(written[ret.attr].b) = 2

\* C8 as claimed: a value changed to a shorter or a longer one between Get's two
\* calls never makes Get fail; the slice returned has the length the second call
\* reported, at most the length the first call discovered.
C8_RacyGetNeverFails ==
    (pc = "idle" /\ ret.op = "Get" /\ ret.race \in {"shrink", "grow"})
        => /\ ret.err = NilErr
           /\ Len(ret.val.b) = ret.size2
           /\ ret.size2 <= ret.size1

\* C8 amended: after a shrink Get returns the new, shorter value whole and no
\* error; after a grow the fill call fails with ERANGE and Get returns a nil value
\* and that error wrapped; whenever a two-call Get returns a nil error the slice
\* has the length the second call reported, at most the length first discovered.
C8_RacyGet ==
    (pc = "idle" /\ ret.op = "Get" /\ Len(log) = 2)
        => /\ ret.race = "shrink" =>
                /\ ret.err = NilErr
                /\ ret.val = Bytes(store[Prefixed(ret.attr)])
                /\ ret.size2 < ret.size1
           /\ ret.race = "grow" =>
                /\ ret.val.isNil
                /\ ret.err.kind = "xattr"
                /\ ret.err.Op = "getxattr"
                /\ ret.err.Err = "ERANGE"
           /\ ret.err = NilErr =>
                /\ Len(ret.val.b) = ret.size2
                /\ ret.size2 <= ret.size1

\* the value grew between the two calls of a Get that has returned
C8_Witness ==
    /\ pc = "idle" /\ ret.op = "Get" /\ ret.race = "grow"

\* the adapter call each facade operation issues
CallOf(op) ==
    IF op = "Get" THEN "getxattr"
    ELSE IF op = "Set" THEN "setxattr"
    ELSE IF op = "Remove" THEN "removexattr"
    ELSE "listxattr"

\* C9: a facade operation stops at the first adapter call that fails and returns
\* that errno unchanged in a *XAttrError naming the call (Attr empty for List);
\* Get and List issue at most two calls, Set and Remove exactly one; the error
\* returned is nil exactly when every call issued succeeded.
C9_Propagation ==
    /\ pc # "idle" => (Len(log) = 1 /\ log[1].errno = "")
    /\ (pc = "idle" /\ ret.op \in {"Get", "Set", "Remove", "List"}) =>
          /\ Len(log) \in (IF ret.op \in {"Get", "List"} THEN {1, 2} ELSE {1})
          /\ \A i \in 1..Len(log) : log[i].call = CallOf(ret.op)
          /\ \A i \in 1..(Len(log) - 1) : log[i].errno = ""
          /\ (ret.err = NilErr) <=> (log[Len(log)].errno = "")
          /\ log[Len(log)].errno # "" =>
                /\ ret.err.kind = "xattr"
                /\ ret.err.Err = log[Len(log)].errno
                /\ ret.err.Op = CallOf(ret.op)
                /\ ret.op = "List" => ret.err.Attr = <<>>

\* the second adapter call of a Get has failed
C9_Witness ==
    /\ pc = "idle" /\ ret.op = "Get"
    /\ Len(log) = 2 /\ log[2].errno # ""

\* the positions of the zero bytes of the decoder's buffer
ZeroPos == {i \in 1..Len(ntbuf) : ntbuf[i] = 0}
\* the position of the k-th zero byte, 0 for k = 0 (the buffer start)
KthZero(k) ==
    IF k = 0 THEN 0
    ELSE CHOOSE p \in ZeroPos : Cardinality({q \in ZeroPos : q < p}) = k - 1

\* C10: nullTermToStrings returns one string per zero byte, in order, the i-th
\* being the bytes strictly between the (i-1)-th zero byte (or the start) and
\* the i-th; bytes after the last zero byte are dropped and no string holds a
\* zero byte.
C10_NullTerm ==
    ntout.done =>
        /\ Len(ntout.s) = Cardinality(ZeroPos)
        /\ \A i \in 1..Len(ntout.s) :
              /\ ntout.s[i] = SubSeq(ntbuf, KthZero(i - 1) + 1, KthZero(i) - 1)
              /\ 0 \notin Range(ntout.s[i])

\* decoded: a segment, an empty string between adjacent zeros, a dropped tail
C10_Witness ==
    /\ ntout.done
    /\ ntbuf = <<1, 0, 0, 2>>
    /\ ntout.s = << <<1>>, <<>> >>

====
